---- MODULE Spec2Model ----
(***************************************************************************)
(* TireFrictionPlugin (src/mpc_ros/plugin/TireFrictionPlugin.cc).          *)
(*                                                                         *)
(* Two contexts share the plugin's private data: the transport thread      *)
(* runs OnContacts, the physics thread runs OnUpdate once per tick.  Each  *)
(* handler is cut into its shared-memory steps, so every interleaving of   *)
(* the two is a behaviour.  C++ doubles are modelled by exact extended     *)
(* rationals: n/d with d > 0, and 1/0, -1/0, 0/0 for +Inf, -Inf and NaN.   *)
(* The contact-point kinematics (lines 242-285) enter through their        *)
(* results: a contact point carries its slip speed, its reference speed    *)
(* and the signed normal force the code computes for it.                   *)
(***************************************************************************)
EXTENDS Integers, Sequences, FiniteSets, TLC

(***************************************************************************)
(* double arithmetic                                                       *)
(***************************************************************************)
IAbs(k) == IF k < 0 THEN -k ELSE k

ISign(k) == IF k < 0 THEN -1 ELSE IF k > 0 THEN 1 ELSE 0

RECURSIVE GCD(_, _)
GCD(a, b) == IF b = 0 THEN a ELSE GCD(b, a % b)

\* The double with value n/d, in lowest terms; d = 0 gives Inf, -Inf or NaN.
Q(n, d) ==
  IF d = 0 THEN [n |-> ISign(n), d |-> 0]
  ELSE LET g == GCD(IAbs(n), IAbs(d))
       IN  [n |-> (ISign(d) * n) \div g, d |-> IAbs(d) \div g]

IsNaN(x) == x.d = 0 /\ x.n = 0

IsFinite(x) == x.d > 0

RAdd(x, y) == Q(x.n * y.d + y.n * x.d, x.d * y.d)

RSub(x, y) == Q(x.n * y.d - y.n * x.d, x.d * y.d)

RMul(x, y) == Q(x.n * y.n, x.d * y.d)

RDiv(x, y) == Q(x.n * y.d, x.d * y.n)

\* std::abs
RAbs(x) == [n |-> IAbs(x.n), d |-> x.d]

\* operator< on doubles: false whenever an operand is NaN
RLt(x, y) ==
  /\ ~IsNaN(x)
  /\ ~IsNaN(y)
  /\ IF x.d = 0 /\ y.d = 0 THEN x.n < y.n ELSE x.n * y.d < y.n * x.d

\* operator<= on doubles
RLe(x, y) == ~IsNaN(x) /\ ~IsNaN(y) /\ ~RLt(y, x)

Zero == Q(0, 1)

One == Q(1, 1)

\* the literal 0.5 of ComputeFriction
Half == Q(1, 2)

\* the literal 0.1 of Load
Tenth == Q(1, 10)

NaN == Q(0, 0)

(***************************************************************************)
(* The environment: the world's entities, the contact messages the         *)
(* transport can deliver, and the plugin's <plugin> element.               *)
(***************************************************************************)
\* names world->GetEntity resolves to a physics::Collision
WorldCollisions == {"wheel::tire", "ground::plane"}

\* links and collisions of the model the plugin is attached to
ModelLinks == {"wheel"}

LinkCollisions == {"tire"}

\* a contact point: |slipVelocity|, referenceSpeed and normalForce of lines 266-285
Pt(s, r, f) == [slipSpeed |-> s, referenceSpeed |-> r, normalForce |-> f]

\* msgs::Contact
Contact(c1, c2, np, nn, nw, pts) ==
  [collision1 |-> c1, collision2 |-> c2, position_size |-> np,
   normal_size |-> nn, wrench_size |-> nw, pts |-> pts]

Good(pts) ==
  Contact("wheel::tire", "ground::plane", Len(pts), Len(pts), Len(pts), pts)

\* two points of weight 10, slips 0.05 and 0.15 at reference speed 2
CtRamp == Good(<<Pt(Q(1, 20), Q(2, 1), Q(10, 1)), Pt(Q(3, 20), Q(2, 1), Q(-10, 1))>>)

\* one point of weight 10 sliding at slip ratio 0.3
CtSlide == Good(<<Pt(Q(3, 5), Q(2, 1), Q(-10, 1))>>)

\* one point of weight 30 between the two slip thresholds (ratio 0.15)
CtPeak == Good(<<Pt(Q(3, 10), Q(2, 1), Q(30, 1))>>)

\* reference speed 3/4: the moderate-speed band
CtMid == Good(<<Pt(Q(3, 20), Q(3, 4), Q(5, 1))>>)

\* reference speed 1/2: the lower edge of the moderate-speed band
CtEdge == Good(<<Pt(Q(1, 20), Q(1, 2), Q(5, 1))>>)

\* reference speed 1/4: the low-speed band
CtSlow == Good(<<Pt(Q(1, 10), Q(1, 4), Q(5, 1))>>)

\* contact points that carry no normal force
CtNoForce == Good(<<Pt(Q(1, 10), Q(2, 1), Zero), Pt(Q(1, 5), Q(2, 1), Zero)>>)

\* position, normal and wrench counts that differ
CtMismatch ==
  Contact("wheel::tire", "ground::plane", 2, 1, 2,
          <<Pt(Q(3, 5), Q(2, 1), Q(10, 1)), Pt(Q(3, 5), Q(2, 1), Q(10, 1))>>)

\* no contact points at all
CtNoPoints == Good(<<>>)

\* collision2 names an entity the world does not hold
CtUnknown ==
  Contact("wheel::tire", "removed::box", 1, 1, 1, <<Pt(Q(3, 5), Q(2, 1), Q(10, 1))>>)

\* collision1 names an entity the world does not hold, and the counts differ
CtUnknownMismatch ==
  Contact("removed::box", "ground::plane", 1, 0, 1, <<Pt(Q(3, 5), Q(2, 1), Q(10, 1))>>)

\* msgs::Contacts: the sequence of its contact() entries
StepMessages ==
  { <<>>, <<CtRamp>>, <<CtSlide>>, <<CtPeak>>, <<CtMid>>, <<CtEdge>>, <<CtSlow>>,
    <<CtNoForce>>, <<CtMismatch>>, <<CtNoPoints>>, <<CtUnknown>>,
    <<CtRamp, CtSlide>>, <<CtRamp, CtPeak>>, <<CtSlide, CtPeak>>,
    <<CtNoForce, CtSlide>>, <<CtNoForce, CtMismatch>>,
    <<CtMismatch, CtRamp>>, <<CtNoPoints, CtSlide>>, <<CtRamp, CtMismatch, CtSlide>>,
    <<CtUnknown, CtRamp>>, <<CtUnknownMismatch, CtSlide>>, <<CtRamp, CtUnknown>> }

\* the messages the interleaving scenarios deliver
RaceMessages == { <<CtRamp>>, <<CtSlide>>, <<>> }

\* longest run of messages the transport delivers in the interleaving scenarios
MaxFeed == 3

\* an element of the <plugin> element: HasElement and Get
Absent == [has |-> FALSE, val |-> Zero]

Given(v) == [has |-> TRUE, val |-> v]

NoName == [has |-> FALSE, val |-> ""]

Named(s) == [has |-> TRUE, val |-> s]

Sdf(link, coll, fs, fd, ss, sd, sp) ==
  [link_name |-> link, collision_name |-> coll, friction_static |-> fs,
   friction_dynamic |-> fd, slip_static |-> ss, slip_dynamic |-> sd,
   speed_static |-> sp]

DefaultSdf == Sdf(NoName, Named("tire"), Absent, Absent, Absent, Absent, Absent)

SlipStaticValues ==
  {Absent, Given(Q(-1, 1)), Given(Zero), Given(Q(1, 20)), Given(Tenth), Given(Q(3, 10))}

SlipDynamicValues ==
  {Absent, Given(Q(-1, 1)), Given(Q(1, 20)), Given(Tenth), Given(Q(1, 5)),
   Given(Q(3, 10)), Given(Half)}

SpeedStaticValues == {Absent, Given(Q(-1, 1)), Given(Zero), Given(Half), Given(Q(2, 1))}

FrictionStaticValues == {Absent, Given(Half), Given(Q(-11, 10)), Given(Zero)}

FrictionDynamicValues == {Absent, Given(Q(-1, 1)), Given(Q(3, 2))}

\* <plugin> elements that exercise the slip and speed checks of Load
SlipSdfs ==
  { Sdf(NoName, Named("tire"), Absent, Absent, ss, sd, sp) :
      ss \in SlipStaticValues, sd \in SlipDynamicValues, sp \in SpeedStaticValues }

\* <plugin> elements that set the two coefficients, which Load does not check
FrictionSdfs ==
  { Sdf(Named("wheel"), Named("tire"), fs, fd, Absent, Absent, Absent) :
      fs \in FrictionStaticValues, fd \in FrictionDynamicValues }

\* <plugin> elements whose link or collision Load cannot resolve
BrokenSdfs ==
  { Sdf(Named("axle"), Named("tire"), Absent, Absent, Absent, Absent, Absent),
    Sdf(NoName, NoName, Absent, Absent, Absent, Absent, Absent),
    Sdf(NoName, Named("rim"), Absent, Absent, Absent, Absent, Absent) }

SeqsUpTo(S, k) == UNION { [1..j -> S] : j \in 0..k }

World(s, type, surf, dt, msgs) ==
  [sdf |-> s, physicsType |-> type, surface |-> surf, maxStepSize |-> dt, feed |-> msgs]

\* The worlds a behaviour can start in: each family varies one input.
Worlds ==
  { World(s, "ode", TRUE, Half, << <<CtRamp>> >>) : s \in SlipSdfs }
    \cup
  { World(s, "ode", TRUE, Half, <<m>>) : s \in FrictionSdfs, m \in StepMessages }
    \cup
  { World(DefaultSdf, b[1], b[2], Half, <<m>>) :
      b \in {<<"bullet", TRUE>>, <<"ode", FALSE>>}, m \in StepMessages }
    \cup
  { World(DefaultSdf, "ode", TRUE, Half, f) : f \in SeqsUpTo(RaceMessages, MaxFeed) }
    \cup
  { World(DefaultSdf, "ode", TRUE, Q(2, 5), f) : f \in SeqsUpTo(RaceMessages, 1) }
    \cup
  { World(s, "ode", TRUE, Half, <<>>) : s \in BrokenSdfs }

(***************************************************************************)
(* State                                                                   *)
(***************************************************************************)
VARIABLES
  sdf,                \* the <plugin> element handed to Load
  physicsType,        \* physics->GetType()
  surface,            \* whether collision->GetSurface() is non-null
  maxStepSize,        \* physics->GetMaxStepSize(), seconds
  feed,               \* contact messages the transport has yet to deliver
  frictionStatic, frictionDynamic, slipStatic, slipDynamic, speedStatic,
  newestContactsMsg, newMsg, newMsgWait, mutex,
  muPrimary, muSecondary,   \* last values given to SetMuPrimary, SetMuSecondary
  pcMain,             \* plugin lifecycle: constructed, loaded, running, fault
  pcC, msg,           \* OnContacts: position and its _msg argument
  pcU,                \* OnUpdate: position
  contacts, i, scaledFriction, contactsNormalForceSum, friction,  \* its locals
  call,               \* the latest ComputeFriction call: arguments and return value
  log,                \* gzerr / gzlog lines of the current handler invocation
  delivered,          \* history: messages whose OnContacts has returned
  taken,              \* history: each snapshot OnUpdate copied, with Len(delivered)
                      \* at the copy
  atEntry, atReturn   \* history: Len(delivered) at the current OnUpdate's entry
                      \* and at the previous OnUpdate's return

env == <<sdf, physicsType, surface, maxStepSize>>

params == <<frictionStatic, frictionDynamic, slipStatic, slipDynamic, speedStatic>>

shared == <<newestContactsMsg, newMsg, mutex>>

mu == <<muPrimary, muSecondary>>

contactsCtx == <<pcC, msg, feed, delivered>>

locals == <<contacts, i, scaledFriction, contactsNormalForceSum, friction, call>>

history == <<taken, atEntry, atReturn>>

vars == <<env, params, shared, newMsgWait, mu, pcMain, contactsCtx, pcU, locals,
          log, history>>

\* common::Time
Time(sec, nsec) == [sec |-> sec, nsec |-> nsec]

NoCall == [slipSpeed |-> Zero, referenceSpeed |-> Zero, return |-> Zero, made |-> FALSE]

\* the surface's coefficient before the plugin first writes it
InitialMu == Q(7, 10)

(***************************************************************************)
(* TireFrictionPlugin::TireFrictionPlugin                                  *)
(***************************************************************************)
Constructed ==
  /\ newMsg = FALSE
  /\ frictionStatic = Q(11, 10)
  /\ frictionDynamic = One
  /\ slipStatic = Tenth
  /\ slipDynamic = Q(2, 10)
  /\ speedStatic = One
  /\ newestContactsMsg = <<>>
  /\ newMsgWait = Time(0, 0)
  /\ mutex = "free"

Init ==
  /\ \E w \in Worlds :
       /\ sdf = w.sdf
       /\ physicsType = w.physicsType
       /\ surface = w.surface
       /\ maxStepSize = w.maxStepSize
       /\ feed = w.feed
  /\ Constructed
  /\ muPrimary = InitialMu
  /\ muSecondary = InitialMu
  /\ pcMain = "constructed"
  /\ pcC = "idle"
  /\ msg = <<>>
  /\ pcU = "idle"
  /\ contacts = <<>>
  /\ i = 0
  /\ scaledFriction = Zero
  /\ contactsNormalForceSum = Zero
  /\ friction = Zero
  /\ call = NoCall
  /\ log = <<>>
  /\ delivered = <<>>
  /\ taken = <<>>
  /\ atEntry = 0
  /\ atReturn = 0

(***************************************************************************)
(* TireFrictionPlugin::Load                                                *)
(***************************************************************************)
\* model->GetLink(linkName), or the model's first link
LinkResolves == sdf.link_name.has => sdf.link_name.val \in ModelLinks

\* link->GetCollision(collisionName); without collision_name it stays null
CollisionResolves ==
  sdf.collision_name.has /\ sdf.collision_name.val \in LinkCollisions

LoadFriction(elem, cur) == IF elem.has THEN elem.val ELSE cur

\* A check that lets a slip_static of exactly zero through.
LoadSlipStaticAllowsZero(elem, cur) ==
  IF elem.has /\ ~RLt(elem.val, Zero) THEN elem.val ELSE cur

LoadSlipStatic(elem, cur) ==
  IF elem.has /\ ~RLe(elem.val, Zero) THEN elem.val ELSE cur

\* A check that lets a slip_dynamic equal to the resolved slipStatic through.
LoadSlipDynamicAllowsEqual(elem, cur, resolvedSlipStatic) ==
  LET given == IF elem.has THEN elem.val ELSE cur
  IN  IF RLt(given, resolvedSlipStatic) THEN RAdd(resolvedSlipStatic, Tenth)
      ELSE given

LoadSlipDynamic(elem, cur, resolvedSlipStatic) ==
  LET given == IF elem.has THEN elem.val ELSE cur
  IN  IF RLe(given, resolvedSlipStatic) THEN RAdd(resolvedSlipStatic, Tenth)
      ELSE given

LoadSpeedStatic(elem, cur) ==
  IF elem.has /\ ~RLe(elem.val, Zero) THEN elem.val ELSE cur

\* the gzerr lines of Load, in order
LoadErrors ==
  LET ss == LoadSlipStatic(sdf.slip_static, slipStatic)
      sd == IF sdf.slip_dynamic.has THEN sdf.slip_dynamic.val ELSE slipDynamic
  IN  (IF sdf.slip_static.has /\ RLe(sdf.slip_static.val, Zero)
         THEN <<"slip_static must be positive">> ELSE <<>>)
      \o (IF RLe(sd, ss)
            THEN <<"slip_dynamic must be greater than slip_static">> ELSE <<>>)
      \o (IF sdf.speed_static.has /\ RLe(sdf.speed_static.val, Zero)
            THEN <<"speed_static must be positive">> ELSE <<>>)

\* A GZ_ASSERT of Load fails: the process stops.
LoadFault ==
  /\ pcMain = "constructed"
  /\ ~(LinkResolves /\ CollisionResolves)
  /\ pcMain' = "fault"
  /\ UNCHANGED <<env, params, shared, newMsgWait, mu, contactsCtx, pcU, locals,
                 log, history>>

Load ==
  /\ pcMain = "constructed"
  /\ LinkResolves /\ CollisionResolves
  /\ frictionStatic' = LoadFriction(sdf.friction_static, frictionStatic)
  /\ frictionDynamic' = LoadFriction(sdf.friction_dynamic, frictionDynamic)
  /\ slipStatic' = LoadSlipStatic(sdf.slip_static, slipStatic)
  /\ slipDynamic' = LoadSlipDynamic(sdf.slip_dynamic, slipDynamic, slipStatic')
  /\ speedStatic' = LoadSpeedStatic(sdf.speed_static, speedStatic)
  /\ log' = LoadErrors
  /\ pcMain' = "loaded"
  /\ UNCHANGED <<env, shared, newMsgWait, mu, contactsCtx, pcU, locals, history>>

(***************************************************************************)
(* TireFrictionPlugin::Init: subscribes OnContacts, connects OnUpdate      *)
(***************************************************************************)
PluginInit ==
  /\ pcMain = "loaded"
  /\ pcMain' = "running"
  /\ UNCHANGED <<env, params, shared, newMsgWait, mu, contactsCtx, pcU, locals,
                 log, history>>

(***************************************************************************)
(* TireFrictionPlugin::OnContacts, on the transport thread                 *)
(***************************************************************************)
\* The transport calls OnContacts with the next message.
CEnter ==
  /\ pcMain = "running"
  /\ pcC = "idle"
  /\ feed # <<>>
  /\ msg' = Head(feed)
  /\ feed' = Tail(feed)
  /\ pcC' = "lock"
  /\ UNCHANGED <<env, params, shared, newMsgWait, mu, pcMain, delivered, pcU,
                 locals, log, history>>

\* line 165
CLock ==
  /\ pcMain = "running"
  /\ pcC = "lock"
  /\ mutex = "free"
  /\ mutex' = "contacts"
  /\ pcC' = "store"
  /\ UNCHANGED <<env, params, newestContactsMsg, newMsg, newMsgWait, mu, pcMain,
                 msg, feed, delivered, pcU, locals, log, history>>

\* A handler that leaves a message alone while it is still unconsumed.
CStoreKeepsPending ==
  /\ pcMain = "running"
  /\ pcC = "store"
  /\ newestContactsMsg' = IF newMsg THEN newestContactsMsg ELSE msg
  /\ pcC' = "flag"
  /\ UNCHANGED <<env, params, newMsg, mutex, newMsgWait, mu, pcMain, msg, feed,
                 delivered, pcU, locals, log, history>>

\* line 166
CStore ==
  /\ pcMain = "running"
  /\ pcC = "store"
  /\ newestContactsMsg' = msg
  /\ pcC' = "flag"
  /\ UNCHANGED <<env, params, newMsg, mutex, newMsgWait, mu, pcMain, msg, feed,
                 delivered, pcU, locals, log, history>>

\* A handler that stores the message and does not raise the flag.
CFlagSkipped ==
  /\ pcMain = "running"
  /\ pcC = "flag"
  /\ pcC' = "unlock"
  /\ UNCHANGED <<env, params, shared, newMsgWait, mu, pcMain, msg, feed, delivered,
                 pcU, locals, log, history>>

\* line 167
CFlag ==
  /\ pcMain = "running"
  /\ pcC = "flag"
  /\ newMsg' = TRUE
  /\ pcC' = "unlock"
  /\ UNCHANGED <<env, params, newestContactsMsg, mutex, newMsgWait, mu, pcMain,
                 msg, feed, delivered, pcU, locals, log, history>>

\* line 168: the scoped_lock is released and the handler returns
CUnlock ==
  /\ pcMain = "running"
  /\ pcC = "unlock"
  /\ mutex' = "free"
  /\ pcC' = "idle"
  /\ delivered' = Append(delivered, msg)
  /\ UNCHANGED <<env, params, newestContactsMsg, newMsg, newMsgWait, mu, pcMain,
                 msg, feed, pcU, locals, log, history>>

OnContacts == CEnter \/ CLock \/ CStore \/ CFlag \/ CUnlock

(***************************************************************************)
(* TireFrictionPlugin::ComputeFriction                                     *)
(***************************************************************************)
\* A curve whose middle segment is anchored at slipStatic instead of slipDynamic.
FrictionFromSlipWrongAnchor(slipRatio) ==
  LET muStatic == RAbs(frictionStatic)
      muDynamic == RAbs(frictionDynamic)
  IN  IF RLt(slipRatio, slipStatic)
        THEN RDiv(RMul(slipRatio, muStatic), slipStatic)
      ELSE IF RLt(slipRatio, slipDynamic)
        THEN RAdd(muDynamic,
                  RMul(RDiv(RSub(muStatic, muDynamic), RSub(slipStatic, slipDynamic)),
                       RSub(slipRatio, slipStatic)))
      ELSE muDynamic

\* A curve whose middle segment has the sign of its slope reversed.
FrictionFromSlipReversedSlope(slipRatio) ==
  LET muStatic == RAbs(frictionStatic)
      muDynamic == RAbs(frictionDynamic)
  IN  IF RLt(slipRatio, slipStatic)
        THEN RDiv(RMul(slipRatio, muStatic), slipStatic)
      ELSE IF RLt(slipRatio, slipDynamic)
        THEN RAdd(muDynamic,
                  RMul(RDiv(RSub(muDynamic, muStatic), RSub(slipStatic, slipDynamic)),
                       RSub(slipRatio, slipDynamic)))
      ELSE muDynamic

\* lines 388-404: the piecewise curve in the slip ratio
FrictionFromSlip(slipRatio) ==
  LET muStatic == RAbs(frictionStatic)
      muDynamic == RAbs(frictionDynamic)
  IN  IF RLt(slipRatio, slipStatic)
        THEN RDiv(RMul(slipRatio, muStatic), slipStatic)
      ELSE IF RLt(slipRatio, slipDynamic)
        THEN RAdd(muDynamic,
                  RMul(RDiv(RSub(muStatic, muDynamic), RSub(slipStatic, slipDynamic)),
                       RSub(slipRatio, slipDynamic)))
      ELSE muDynamic

\* lines 408-409
SpeedRatio(_referenceSpeed) == RDiv(RAbs(_referenceSpeed), RAbs(speedStatic))

\* lines 410-413: the value returned in the moderate-speed band
Smoothed(frictionFromSlip, speedRatio) ==
  RMul(RDiv(RSub(frictionFromSlip, frictionStatic), Half), RSub(speedRatio, Half))

\* A low-speed guard that returns the magnitude of the static coefficient.
ComputeFrictionLowSpeedMagnitude(_slipSpeed, _referenceSpeed) ==
  IF RLt(RAbs(_referenceSpeed), RMul(Half, RAbs(speedStatic)))
    THEN RAbs(frictionStatic)
  ELSE
    LET slipRatio == RDiv(RAbs(_slipSpeed), RAbs(_referenceSpeed))
        frictionFromSlip == FrictionFromSlip(slipRatio)
        speedRatio == SpeedRatio(_referenceSpeed)
    IN  IF RLe(Half, speedRatio) /\ RLt(speedRatio, One)
          THEN Smoothed(frictionFromSlip, speedRatio)
        ELSE frictionFromSlip

\* lines 373-418
ComputeFriction(_slipSpeed, _referenceSpeed) ==
  IF RLt(RAbs(_referenceSpeed), RMul(Half, RAbs(speedStatic)))
    THEN frictionStatic
  ELSE
    LET slipRatio == RDiv(RAbs(_slipSpeed), RAbs(_referenceSpeed))
        frictionFromSlip == FrictionFromSlip(slipRatio)
        speedRatio == SpeedRatio(_referenceSpeed)
    IN  IF RLe(Half, speedRatio) /\ RLt(speedRatio, One)
          THEN Smoothed(frictionFromSlip, speedRatio)
        ELSE frictionFromSlip

(***************************************************************************)
(* TireFrictionPlugin::OnUpdate, on the physics thread                     *)
(***************************************************************************)
NsPerSec == 10 ^ 9

\* common::Time(double): whole seconds and rounded nanoseconds
TimeOf(x) ==
  LET frac == x.n % x.d
  IN  Time(x.n \div x.d,
           (NsPerSec \div x.d) * frac
             + ((2 * (NsPerSec % x.d) * frac + x.d) \div (2 * x.d)))

\* common::Time::operator+=, with the nanosecond carry
TimePlus(a, b) ==
  Time(a.sec + b.sec + ((a.nsec + b.nsec) \div NsPerSec), (a.nsec + b.nsec) % NsPerSec)

\* common::Time::operator>
TimeGt(a, b) == a.sec > b.sec \/ (a.sec = b.sec /\ a.nsec > b.nsec)

\* world->GetEntity(name) cast to a Collision is non-null
Resolves(name) == name \in WorldCollisions

\* lines 227-229
Malformed(c) ==
  \/ c.position_size = 0
  \/ c.position_size # c.normal_size
  \/ c.position_size # c.wrench_size

\* lines 236-286: the three sums over the first n contact points
RECURSIVE PointSums(_, _)
PointSums(pts, n) ==
  IF n = 0
    THEN [scaledSlipSpeed |-> Zero, scaledReferenceSpeed |-> Zero,
          contactNormalForceSum |-> Zero]
  ELSE LET r == PointSums(pts, n - 1)
           w == RAbs(pts[n].normalForce)
       IN  [scaledSlipSpeed |-> RAdd(r.scaledSlipSpeed, RMul(pts[n].slipSpeed, w)),
            scaledReferenceSpeed |->
              RAdd(r.scaledReferenceSpeed, RMul(pts[n].referenceSpeed, w)),
            contactNormalForceSum |-> RAdd(r.contactNormalForceSum, w)]

\* lines 288-290: a contact's aggregate slip and reference speed, and its weight
Aggregate(c) ==
  LET sums == PointSums(c.pts, c.position_size)
  IN  [slipSpeed |-> RDiv(sums.scaledSlipSpeed, sums.contactNormalForceSum),
       referenceSpeed |-> RDiv(sums.scaledReferenceSpeed, sums.contactNormalForceSum),
       contactNormalForceSum |-> sums.contactNormalForceSum]

\* the physics engine calls OnUpdate
UEnter ==
  /\ pcMain = "running"
  /\ pcU = "idle"
  /\ pcU' = "check"
  /\ log' = <<>>
  /\ atEntry' = Len(delivered)
  /\ UNCHANGED <<env, params, shared, newMsgWait, mu, pcMain, contactsCtx, locals,
                 taken, atReturn>>

\* line 174: newMsg is read without the mutex.  The read races with line 167
\* and yields the flag's value before or after that write: the two orders of
\* UCheck and CFlag.
UCheck ==
  /\ pcMain = "running"
  /\ pcU = "check"
  /\ pcU' = IF ~newMsg THEN "stall" ELSE "lock"
  /\ UNCHANGED <<env, params, shared, newMsgWait, mu, pcMain, contactsCtx, locals,
                 log, history>>

\* A stall path that accumulates the wait and never clears it.
UStallNeverResets ==
  /\ pcMain = "running"
  /\ pcU = "stall"
  /\ LET waited == TimePlus(newMsgWait, TimeOf(maxStepSize))
     IN  /\ newMsgWait' = waited
         /\ log' = IF TimeGt(waited, Time(1, 0))
                     THEN Append(log, "Waited without a contact message")
                   ELSE log
  /\ pcU' = "idle"
  /\ atReturn' = Len(delivered)
  /\ UNCHANGED <<env, params, shared, mu, pcMain, contactsCtx, locals, taken, atEntry>>

\* A stall path that also clears the flag.
UStallClearsFlag ==
  /\ pcMain = "running"
  /\ pcU = "stall"
  /\ LET waited == TimePlus(newMsgWait, TimeOf(maxStepSize))
     IN  IF TimeGt(waited, Time(1, 0))
           THEN /\ log' = Append(log, "Waited without a contact message")
                /\ newMsgWait' = Time(0, 0)
         ELSE /\ newMsgWait' = waited
              /\ log' = log
  /\ newMsg' = FALSE
  /\ pcU' = "idle"
  /\ atReturn' = Len(delivered)
  /\ UNCHANGED <<env, params, newestContactsMsg, mutex, mu, pcMain, contactsCtx,
                 locals, taken, atEntry>>

\* lines 177-189
UStall ==
  /\ pcMain = "running"
  /\ pcU = "stall"
  /\ LET waited == TimePlus(newMsgWait, TimeOf(maxStepSize))
     IN  IF TimeGt(waited, Time(1, 0))
           THEN /\ log' = Append(log, "Waited without a contact message")
                /\ newMsgWait' = Time(0, 0)
         ELSE /\ newMsgWait' = waited
              /\ log' = log
  /\ pcU' = "idle"
  /\ atReturn' = Len(delivered)
  /\ UNCHANGED <<env, params, shared, mu, pcMain, contactsCtx, locals, taken, atEntry>>

\* line 195
ULock ==
  /\ pcMain = "running"
  /\ pcU = "lock"
  /\ mutex = "free"
  /\ mutex' = "update"
  /\ pcU' = "copy"
  /\ UNCHANGED <<env, params, newestContactsMsg, newMsg, newMsgWait, mu, pcMain,
                 contactsCtx, locals, log, history>>

\* line 196
UCopy ==
  /\ pcMain = "running"
  /\ pcU = "copy"
  /\ contacts' = newestContactsMsg
  /\ taken' = Append(taken, [at |-> Len(delivered), snapshot |-> contacts'])
  /\ pcU' = "clear"
  /\ UNCHANGED <<env, params, shared, newMsgWait, mu, pcMain, contactsCtx, i,
                 scaledFriction, contactsNormalForceSum, friction, call, log,
                 atEntry, atReturn>>

\* An update that takes the snapshot and leaves the flag set.
UClearForgets ==
  /\ pcMain = "running"
  /\ pcU = "clear"
  /\ pcU' = "unlock"
  /\ UNCHANGED <<env, params, shared, newMsgWait, mu, pcMain, contactsCtx, locals,
                 log, history>>

\* line 197
UClear ==
  /\ pcMain = "running"
  /\ pcU = "clear"
  /\ newMsg' = FALSE
  /\ pcU' = "unlock"
  /\ UNCHANGED <<env, params, newestContactsMsg, mutex, newMsgWait, mu, pcMain,
                 contactsCtx, locals, log, history>>

\* An update whose lock lives on past the copy, into the computation.
UUnlockKeepsMutex ==
  /\ pcMain = "running"
  /\ pcU = "unlock"
  /\ pcU' = "reset"
  /\ UNCHANGED <<env, params, shared, newMsgWait, mu, pcMain, contactsCtx, locals,
                 log, history>>

\* line 198: the scoped_lock's block ends
UUnlock ==
  /\ pcMain = "running"
  /\ pcU = "unlock"
  /\ mutex' = "free"
  /\ pcU' = "reset"
  /\ UNCHANGED <<env, params, newestContactsMsg, newMsg, newMsgWait, mu, pcMain,
                 contactsCtx, locals, log, history>>

\* An update that consumes a snapshot and leaves the wait as it was.
UResetKeepsWait ==
  /\ pcMain = "running"
  /\ pcU = "reset"
  /\ scaledFriction' = Zero
  /\ contactsNormalForceSum' = Zero
  /\ i' = 0
  /\ call' = NoCall
  /\ pcU' = "loop"
  /\ UNCHANGED <<env, params, shared, newMsgWait, mu, pcMain, contactsCtx, contacts,
                 friction, log, history>>

\* lines 199-211: the wait is cleared and the loop's accumulators start at zero
UReset ==
  /\ pcMain = "running"
  /\ pcU = "reset"
  /\ newMsgWait' = Time(0, 0)
  /\ scaledFriction' = Zero
  /\ contactsNormalForceSum' = Zero
  /\ i' = 0
  /\ call' = NoCall
  /\ pcU' = "loop"
  /\ UNCHANGED <<env, params, shared, mu, pcMain, contactsCtx, contacts, friction,
                 log, history>>

\* lines 223-224 on a null CollisionPtr: undefined behaviour.  A build either
\* stops here, or carries on (ULoopBody) with whatever the dereference yields.
ULoopFault ==
  /\ pcMain = "running"
  /\ pcU = "loop"
  /\ i < Len(contacts)
  /\ ~(Resolves(contacts[i + 1].collision1) /\ Resolves(contacts[i + 1].collision2))
  /\ pcMain' = "fault"
  /\ UNCHANGED <<env, params, shared, newMsgWait, mu, contactsCtx, pcU, locals,
                 log, history>>

\* A loop body that sums the contacts' coefficients without their weights.
ULoopBodyUnweighted ==
  /\ pcMain = "running"
  /\ pcU = "loop"
  /\ i < Len(contacts)
  /\ LET c == contacts[i + 1]
     IN  IF Malformed(c)
           THEN /\ log' = Append(log, "No contacts or invalid contact message")
                /\ UNCHANGED <<scaledFriction, contactsNormalForceSum, call>>
         ELSE LET a == Aggregate(c)
                  f == ComputeFriction(a.slipSpeed, a.referenceSpeed)
              IN  /\ call' = [slipSpeed |-> a.slipSpeed,
                              referenceSpeed |-> a.referenceSpeed,
                              return |-> f, made |-> TRUE]
                  /\ scaledFriction' = RAdd(scaledFriction, f)
                  /\ contactsNormalForceSum' =
                       RAdd(contactsNormalForceSum, a.contactNormalForceSum)
                  /\ log' = log
  /\ i' = i + 1
  /\ UNCHANGED <<env, params, shared, newMsgWait, mu, pcMain, contactsCtx, pcU,
                 contacts, friction, history>>

\* lines 211-297: one iteration of the loop over contacts.contact(i)
ULoopBody ==
  /\ pcMain = "running"
  /\ pcU = "loop"
  /\ i < Len(contacts)
  /\ LET c == contacts[i + 1]
     IN  IF Malformed(c)
           THEN /\ log' = Append(log, "No contacts or invalid contact message")
                /\ UNCHANGED <<scaledFriction, contactsNormalForceSum, call>>
         ELSE LET a == Aggregate(c)
                  f == ComputeFriction(a.slipSpeed, a.referenceSpeed)
              IN  /\ call' = [slipSpeed |-> a.slipSpeed,
                              referenceSpeed |-> a.referenceSpeed,
                              return |-> f, made |-> TRUE]
                  /\ scaledFriction' =
                       RAdd(scaledFriction, RMul(f, a.contactNormalForceSum))
                  /\ contactsNormalForceSum' =
                       RAdd(contactsNormalForceSum, a.contactNormalForceSum)
                  /\ log' = log
  /\ i' = i + 1
  /\ UNCHANGED <<env, params, shared, newMsgWait, mu, pcMain, contactsCtx, pcU,
                 contacts, friction, history>>

\* line 298
ULoopExit ==
  /\ pcMain = "running"
  /\ pcU = "loop"
  /\ i = Len(contacts)
  /\ friction' = RDiv(scaledFriction, contactsNormalForceSum)
  /\ pcU' = "write"
  /\ UNCHANGED <<env, params, shared, newMsgWait, mu, pcMain, contactsCtx, contacts,
                 i, scaledFriction, contactsNormalForceSum, call, log, history>>

\* A write step that does not look at the physics engine's type.
AnyBackend(type) == TRUE

\* line 301
SupportedBackend(type) == type = "ode"

\* lines 300-320
UWrite ==
  /\ pcMain = "running"
  /\ pcU = "write"
  /\ IF SupportedBackend(physicsType)
       THEN IF surface
              THEN /\ muPrimary' = friction
                   /\ muSecondary' = friction
                   /\ log' = log
            ELSE /\ log' = Append(log, "Setting friction failed")
                 /\ UNCHANGED mu
     ELSE /\ log' = Append(log, "Only ODE is supported right now")
          /\ UNCHANGED mu
  /\ pcU' = "idle"
  /\ atReturn' = Len(delivered)
  /\ UNCHANGED <<env, params, shared, newMsgWait, pcMain, contactsCtx, locals,
                 taken, atEntry>>

OnUpdate ==
  \/ UEnter \/ UCheck \/ UStall \/ ULock \/ UCopy \/ UClear \/ UUnlock \/ UReset
  \/ ULoopFault \/ ULoopBody \/ ULoopExit \/ UWrite

Next == LoadFault \/ Load \/ PluginInit \/ OnContacts \/ OnUpdate

Spec == Init /\ [][Next]_vars

\* The physics engine calls OnUpdate on every step and a handler that has
\* been entered runs on: neither thread stops for good while it has a step to
\* take.  The transport need not deliver another message.
\* The loop body's weak fairness is written out, with its enabling condition
\* as a state predicate.
LoopBodyEnabled == pcMain = "running" /\ pcU = "loop" /\ i < Len(contacts)

Fairness ==
  /\ WF_vars(UEnter \/ UCheck \/ UStall \/ ULock \/ UCopy \/ UClear \/ UUnlock
               \/ UReset \/ ULoopExit \/ UWrite)
  /\ ([]<>(~LoopBodyEnabled) \/ []<><<ULoopBody>>_vars)
  /\ WF_vars(CLock \/ CStore \/ CFlag \/ CUnlock)

\* the messages and the longest feed of the worlds the fair behaviours start in
FairMessages == { <<CtRamp>>, <<CtSlide>> }

MaxFairFeed == 2

\* Worlds for the fair behaviours: the transport delivers up to MaxFairFeed
\* messages; or a message that stops OnUpdate, then another; or Load fails.
FairWorlds ==
  { World(DefaultSdf, "ode", TRUE, Half, f) : f \in SeqsUpTo(FairMessages, MaxFairFeed) }
    \cup
  { World(DefaultSdf, "ode", TRUE, Half, << <<CtUnknown>>, <<CtRamp>> >>) }
    \cup
  { World(s, "ode", TRUE, Half, <<>>) : s \in BrokenSdfs }

InitFair ==
  /\ \E w \in FairWorlds :
       /\ sdf = w.sdf
       /\ physicsType = w.physicsType
       /\ surface = w.surface
       /\ maxStepSize = w.maxStepSize
       /\ feed = w.feed
  /\ Constructed
  /\ muPrimary = InitialMu
  /\ muSecondary = InitialMu
  /\ pcMain = "constructed"
  /\ pcC = "idle"
  /\ msg = <<>>
  /\ pcU = "idle"
  /\ contacts = <<>>
  /\ i = 0
  /\ scaledFriction = Zero
  /\ contactsNormalForceSum = Zero
  /\ friction = Zero
  /\ call = NoCall
  /\ log = <<>>
  /\ delivered = <<>>
  /\ taken = <<>>
  /\ atEntry = 0
  /\ atReturn = 0

SpecFair == InitFair /\ [][Next]_vars /\ Fairness

(***************************************************************************)
(* ComputeFriction on its own: Load resolves the parameters of a <plugin>  *)
(* element, then the function is applied to one pair of arguments.         *)
(***************************************************************************)
FnSdfs ==
  { Sdf(NoName, Named("tire"), fs, fd, ss, sd, sp) :
      fs \in FrictionStaticValues, fd \in FrictionDynamicValues,
      ss \in {Absent, Given(Q(1, 5))}, sd \in {Absent, Given(Half)},
      sp \in {Absent, Given(Q(2, 1))} }

FnSlipSpeeds ==
  { Zero, Q(1, 20), Tenth, Q(3, 20), Q(1, 5), Q(3, 10), Q(2, 5), Half, One,
    Q(-3, 20), Q(-3, 10) }

FnReferenceSpeeds ==
  { Zero, Q(1, 4), Half, Q(3, 4), One, Q(3, 2), Q(2, 1), Q(-3, 4), Q(-1, 1), Q(-2, 1) }

InitFn ==
  /\ sdf \in FnSdfs
  /\ physicsType = "ode"
  /\ surface = TRUE
  /\ maxStepSize = Half
  /\ feed = <<>>
  /\ Constructed
  /\ muPrimary = InitialMu
  /\ muSecondary = InitialMu
  /\ pcMain = "constructed"
  /\ pcC = "idle"
  /\ msg = <<>>
  /\ pcU = "idle"
  /\ contacts = <<>>
  /\ i = 0
  /\ scaledFriction = Zero
  /\ contactsNormalForceSum = Zero
  /\ friction = Zero
  /\ \E s \in FnSlipSpeeds, r \in FnReferenceSpeeds :
       call = [slipSpeed |-> s, referenceSpeed |-> r, return |-> Zero, made |-> FALSE]
  /\ log = <<>>
  /\ delivered = <<>>
  /\ taken = <<>>
  /\ atEntry = 0
  /\ atReturn = 0

\* ComputeFriction(call.slipSpeed, call.referenceSpeed) is called and returns
CallComputeFriction ==
  /\ pcMain = "loaded"
  /\ ~call.made
  /\ call' = [call EXCEPT !.return = ComputeFriction(call.slipSpeed, call.referenceSpeed),
                          !.made = TRUE]
  /\ UNCHANGED <<env, params, shared, newMsgWait, mu, pcMain, contactsCtx, pcU,
                 contacts, i, scaledFriction, contactsNormalForceSum, friction,
                 log, history>>

NextFn == Load \/ CallComputeFriction

SpecFn == InitFn /\ [][NextFn]_vars

(***************************************************************************)
(* Properties                                                              *)
(***************************************************************************)
\* positions of OnUpdate from the snapshot copy to the coefficient write
Consuming == {"clear", "unlock", "reset", "loop", "write"}

Last(q) == q[Len(q)]

\* C1: latest-wins.  Every snapshot an OnUpdate has copied is the message
\* delivered last before the copy, so a message superseded before a copy is
\* never processed; and an OnUpdate entered after N >= 1 deliveries since the
\* previous OnUpdate returned does not take the no-message path.
C1_LatestWins ==
  /\ \A k \in 1..Len(taken) :
       /\ taken[k].at \in 1..Len(delivered)
       /\ taken[k].snapshot = delivered[taken[k].at]
  /\ pcU \in Consuming =>
       /\ taken # <<>>
       /\ contacts = Last(taken).snapshot
       /\ Last(taken).at >= atEntry
  /\ pcU = "stall" => atEntry = atReturn

\* C1 witness: a second OnUpdate processes the last of two different messages
\* delivered since the first OnUpdate returned.
C1_Witness ==
  /\ pcU = "write"
  /\ Len(taken) = 2
  /\ atEntry = atReturn + 2
  /\ Last(taken).at = atEntry
  /\ delivered[atEntry - 1] # delivered[atEntry]
  /\ contacts = delivered[atEntry]

\* C2: whenever a handler is about to read or write newestContactsMsg, newMsg
\* or newMsgWait, its context holds the mutex.
C2_LockDiscipline ==
  /\ pcU \in {"check", "stall", "copy", "clear", "reset"} => mutex = "update"
  /\ pcC \in {"store", "flag"} => mutex = "contacts"

\* C5: each delivered message is consumed at most once, and an OnUpdate
\* consumes only if a message was delivered since the previous snapshot copy:
\* the delivery counts at the copies are at least 1 and strictly increase.
C5_AtMostOnce ==
  \A k \in 1..Len(taken) :
    /\ taken[k].at >= 1
    /\ k > 1 => taken[k].at > taken[k - 1].at

\* C5 witness: after an OnUpdate consumed the only message delivered so far,
\* the next OnUpdate finds nothing to consume.
C5_Witness ==
  /\ pcU = "stall"
  /\ Len(taken) >= 1
  /\ Last(taken).at = Len(delivered)
  /\ pcC = "idle"

\* x lies between a and b inclusive, whichever of the two is larger
Between(x, a, b) == (RLe(a, x) /\ RLe(x, b)) \/ (RLe(b, x) /\ RLe(x, a))

\* the slip ratio and the speed ratio of the latest ComputeFriction call
CallSlipRatio == RDiv(RAbs(call.slipSpeed), RAbs(call.referenceSpeed))

CallSpeedRatio == RDiv(RAbs(call.referenceSpeed), RAbs(speedStatic))

\* C3: a tick whose consumed snapshot has zero total contact weight leaves
\* both friction axes of the surface as they were.
C3_ZeroWeightRetains ==
  [][(pcU = "write" /\ contactsNormalForceSum = Zero)
       => (muPrimary' = muPrimary /\ muSecondary' = muSecondary)]_vars

\* C4: a Contact with an unresolvable collision is skipped (it adds nothing
\* to the loop's sums) and the tick goes on without a fault.
C4_UnresolvedSkipped ==
  [][(/\ pcMain = "running"
      /\ pcU = "loop"
      /\ i < Len(contacts)
      /\ ~(Resolves(contacts[i + 1].collision1) /\ Resolves(contacts[i + 1].collision2)))
       => (/\ pcMain' = "running"
           /\ scaledFriction' = scaledFriction
           /\ contactsNormalForceSum' = contactsNormalForceSum)]_vars

\* C6: in the moderate-speed band ComputeFriction returns the linear blend
\* frictionStatic + (frictionFromSlip - frictionStatic) * (speedRatio - 0.5) / 0.5.
C6_LinearBlend ==
  (call.made /\ RLe(Half, CallSpeedRatio) /\ RLt(CallSpeedRatio, One)) =>
    call.return =
      RAdd(frictionStatic,
           RDiv(RMul(RSub(FrictionFromSlip(CallSlipRatio), frictionStatic),
                     RSub(CallSpeedRatio, Half)),
                Half))

\* Sums over the well-formed contacts among the first n of a snapshot, each
\* weighted by its summed normal force: slip speed, reference speed, the
\* coefficient ComputeFriction gives the contact, and the weights themselves.
RECURSIVE SnapshotSums(_, _)
SnapshotSums(cs, n) ==
  IF n = 0
    THEN [slip |-> Zero, reference |-> Zero, friction |-> Zero, weight |-> Zero,
          count |-> 0]
  ELSE LET r == SnapshotSums(cs, n - 1)
           a == Aggregate(cs[n])
           w == a.contactNormalForceSum
       IN  IF Malformed(cs[n]) THEN r
           ELSE [slip |-> IF w = Zero THEN r.slip
                          ELSE RAdd(r.slip, RMul(a.slipSpeed, w)),
                 reference |-> IF w = Zero THEN r.reference
                               ELSE RAdd(r.reference, RMul(a.referenceSpeed, w)),
                 friction |->
                   RAdd(r.friction,
                        RMul(ComputeFriction(a.slipSpeed, a.referenceSpeed), w)),
                 weight |-> RAdd(r.weight, w),
                 count |-> r.count + 1]

AllResolve(cs) ==
  \A k \in 1..Len(cs) : Resolves(cs[k].collision1) /\ Resolves(cs[k].collision2)

\* the snapshot has several valid Contacts and none that fails to resolve
SeveralValid(cs) == AllResolve(cs) /\ SnapshotSums(cs, Len(cs)).count >= 2

\* ComputeFriction applied once to the snapshot's weighted-average pair
SingleEvaluation(cs) ==
  LET t == SnapshotSums(cs, Len(cs))
  IN  ComputeFriction(RDiv(t.slip, t.weight), RDiv(t.reference, t.weight))

\* the weighted average of the per-Contact coefficients
WeightedFriction(cs) ==
  LET t == SnapshotSums(cs, Len(cs))
  IN  RDiv(t.friction, t.weight)

\* an OnUpdate that consumed the snapshot in contacts has returned, and no
\* later one has begun to process another
Processed == pcMain = "running" /\ taken # <<>> /\ pcU \notin Consuming

\* C7 as stated: for a snapshot with several valid Contacts the coefficient
\* computed for the surface is ComputeFriction applied once to the pair of
\* weighted-average slip and reference speeds.
C7_SingleEvaluation ==
  (pcU = "write" /\ SeveralValid(contacts)) => friction = SingleEvaluation(contacts)

\* C7 amended: for a snapshot with several valid Contacts the coefficient
\* computed, and written to both axes on the "ode" backend, is the average of
\* the per-Contact ComputeFriction values weighted by each Contact's summed
\* normal force.
C7_WeightedFriction ==
  SeveralValid(contacts) =>
    /\ pcU = "write" => friction = WeightedFriction(contacts)
    /\ (Processed /\ physicsType = "ode" /\ surface) =>
         /\ muPrimary = WeightedFriction(contacts)
         /\ muSecondary = WeightedFriction(contacts)

\* C7 witness: a written coefficient that averages two Contacts' coefficients
\* and differs from the single evaluation.
C7_Witness ==
  /\ Processed
  /\ pcU = "idle"
  /\ SeveralValid(contacts)
  /\ IsFinite(muPrimary)
  /\ muPrimary = WeightedFriction(contacts)
  /\ muPrimary # SingleEvaluation(contacts)

\* C8 as stated: an OnUpdate that reaches the write step on a backend other
\* than "ode" leaves both coefficients as they were and has logged exactly one
\* error when it returns.
C8_OneErrorPerInvocation ==
  [][(pcU = "write" /\ pcU' = "idle" /\ physicsType # "ode")
       => (/\ muPrimary' = muPrimary
           /\ muSecondary' = muSecondary
           /\ Len(log') = 1)]_vars

\* the Contacts of a snapshot that the count check rejects
MalformedCount(cs) == Cardinality({k \in 1..Len(cs) : Malformed(cs[k])})

\* C8 amended: on a backend other than "ode" the write step leaves both
\* coefficients as they were and logs exactly one error; the invocation's
\* other errors are one for each malformed Contact of the snapshot.
C8_UnsupportedBackend ==
  [][(pcU = "write" /\ pcU' = "idle" /\ physicsType # "ode")
       => (/\ muPrimary' = muPrimary
           /\ muSecondary' = muSecondary
           /\ log' = Append(log, "Only ODE is supported right now")
           /\ Len(log') = 1 + MalformedCount(contacts))]_vars

\* C8 witness: on "bullet" an OnUpdate computed a coefficient other than the
\* surface's, logged the error and left the surface alone.
C8_Witness ==
  /\ Processed
  /\ pcU = "idle"
  /\ physicsType = "bullet"
  /\ log # <<>>
  /\ Last(log) = "Only ODE is supported right now"
  /\ IsFinite(friction)
  /\ friction # muPrimary
  /\ muPrimary = InitialMu

C10_Case ==
  /\ call.made
  /\ RLe(One, CallSpeedRatio)
  /\ RLe(slipStatic, CallSlipRatio)
  /\ RLe(CallSlipRatio, slipDynamic)

WellFormed(c) == ~Malformed(c)

WithoutMalformed(cs) == SelectSeq(cs, WellFormed)

\* C11: a Contact whose position, normal and wrench counts are zero or differ
\* is skipped: the iteration that meets it adds nothing to the loop's sums and
\* the tick goes on, and the coefficient computed when the loop ends is the
\* one of the snapshot without the malformed Contacts.
C11_MalformedSkipped ==
  [][/\ (/\ pcMain = "running"
         /\ pcU = "loop"
         /\ i < Len(contacts)
         /\ Malformed(contacts[i + 1]))
          => (/\ pcMain' = "running"
              /\ scaledFriction' = scaledFriction
              /\ contactsNormalForceSum' = contactsNormalForceSum)
     /\ (pcU = "loop" /\ pcU' = "write")
          => friction' = WeightedFriction(WithoutMalformed(contacts))]_vars

\* a common::Time of at most one second
AtMostOneSecond(t) == t.sec = 0 \/ (t.sec = 1 /\ t.nsec = 0)

\* C12: an OnUpdate that found no new message adds the step size to the wait;
\* if the sum exceeds one second it emits the diagnostic and clears the wait
\* before it returns, otherwise it stores the sum.  It returns from there in
\* one step, with the plugin still running, and the wait it leaves is at most
\* one second.
C12_StallAccumulates ==
  [][(pcU = "stall" /\ pcU' # "stall")
       => (LET grown == TimePlus(newMsgWait, TimeOf(maxStepSize))
           IN  /\ pcU' = "idle"
               /\ pcMain' = "running"
               /\ mutex' = mutex
               /\ IF AtMostOneSecond(grown)
                    THEN newMsgWait' = grown /\ log' = log
                  ELSE /\ newMsgWait' = Time(0, 0)
                       /\ log' = Append(log, "Waited without a contact message")
               /\ AtMostOneSecond(newMsgWait'))]_vars

\* C12 witness: a run of no-message ticks took the wait to one second exactly
\* without a diagnostic, and the next one exceeded it: the diagnostic is out
\* and the wait is back at zero.
C12_Witness ==
  /\ pcU = "idle"
  /\ pcMain = "running"
  /\ taken = <<>>
  /\ log = <<"Waited without a contact message">>
  /\ newMsgWait = Time(0, 0)
  /\ maxStepSize = Half

\* the case of C13: a reference speed below half of |speedStatic|
C13_Case ==
  /\ call.made
  /\ RLt(RAbs(call.referenceSpeed), RMul(Half, RAbs(speedStatic)))

\* C13: for a reference speed with |referenceSpeed| < 0.5 * |speedStatic|,
\* zero included, ComputeFriction returns frictionStatic itself, whatever the
\* slip speed and the other parameters are.
C13_LowSpeedStatic == C13_Case => call.return = frictionStatic

\* C13 witness: a non-zero slip at a non-zero low reference speed, with a
\* negative frictionStatic and a frictionDynamic that was set, returned
\* frictionStatic.
C13_Witness ==
  /\ C13_Case
  /\ call.slipSpeed # Zero
  /\ call.referenceSpeed # Zero
  /\ RLt(frictionStatic, Zero)
  /\ sdf.friction_dynamic.has
  /\ call.return = frictionStatic

\* the case of C14: high speed, slip ratio equal to slipStatic
C14_Case ==
  /\ call.made
  /\ RLe(One, CallSpeedRatio)
  /\ CallSlipRatio = slipStatic

\* the ramp of lines 395-398 evaluated at a slip ratio
Ramp(slipRatio) == RDiv(RMul(slipRatio, RAbs(frictionStatic)), slipStatic)

SuppliedSlipDynamic == IF sdf.slip_dynamic.has THEN sdf.slip_dynamic.val ELSE Q(1, 5)

\* C15: after Load, slipStatic is the supplied slip_static when that is
\* positive and 0.1 when it is absent or <= 0; slipDynamic is the supplied
\* slip_dynamic (0.2 when absent) when that is above the resolved slipStatic,
\* and the resolved slipStatic + 0.1 otherwise.
C15_SlipFallbacks ==
  pcMain # "constructed" =>
    /\ slipStatic =
         (IF sdf.slip_static.has /\ RLt(Zero, sdf.slip_static.val)
            THEN sdf.slip_static.val
          ELSE Q(1, 10))
    /\ slipDynamic =
         (IF RLt(slipStatic, SuppliedSlipDynamic)
            THEN SuppliedSlipDynamic
          ELSE RAdd(slipStatic, Q(1, 10)))

\* C15 witness: slip_static = -1 and slip_dynamic = 0.05 were loaded as
\* slipStatic = 0.1 and slipDynamic = 0.2.
C15_Witness ==
  /\ pcMain = "loaded"
  /\ sdf.slip_static = Given(Q(-1, 1))
  /\ sdf.slip_dynamic = Given(Q(1, 20))
  /\ slipStatic = Q(1, 10)
  /\ slipDynamic = Q(1, 5)
  /\ Len(log) >= 2

\* positions of OnUpdate inside the scoped_lock's block
Locked == {"copy", "clear", "unlock"}

\* positions of OnUpdate from the end of that block to the coefficient write
Computing == {"reset", "loop", "write"}

\* C16: OnUpdate holds the mutex exactly while it copies the snapshot and
\* clears the flag.  While it computes or writes it does not hold the mutex,
\* and an OnContacts waiting for the mutex then finds it free.
C16_ShortCriticalSection ==
  /\ mutex = "update" <=> pcU \in Locked
  /\ pcU \in Computing => mutex # "update"
  /\ (pcU \in Computing /\ pcC = "lock") => mutex = "free"

\* C16 witness: OnContacts holds the mutex and is storing the next message
\* while OnUpdate is in the loop over an earlier snapshot's Contacts.
C16_Witness ==
  /\ pcU = "loop"
  /\ i < Len(contacts)
  /\ pcC = "store"
  /\ mutex = "contacts"
  /\ msg # contacts

\* the k-th delivered message, or a later one, has been copied by an OnUpdate
ConsumedFrom(k) == \E j \in 1..Len(taken) : taken[j].at >= k

\* C17: while OnUpdate keeps being called, every delivered message is
\* followed by an OnUpdate that copies it or a later one (a plugin that has
\* stopped in a fault is no longer called); and whenever the flag is clear
\* with the mutex free, the message delivered last has been copied.
C17_EventualConsumption ==
  /\ [](pcMain = "running" /\ mutex = "free" /\ ~newMsg /\ delivered # <<>>
          => taken # <<>> /\ Last(taken).at = Len(delivered))
  /\ \A k \in 1..MaxFairFeed :
       (Len(delivered) >= k) ~> (ConsumedFrom(k) \/ pcMain = "fault")

\* C17 witness: the first message's delivery completed during an OnUpdate
\* whose unlocked check had read the flag clear, so that one returned without
\* it; the next OnUpdate has just copied it.
C17_Witness ==
  /\ pcU = "clear"
  /\ Len(delivered) = 1
  /\ atReturn = 1
  /\ atEntry = 1
  /\ Len(taken) = 1
  /\ Last(taken).at = 1
  /\ newMsgWait # Time(0, 0)

\* C18: the steps of an OnUpdate that takes the no-message path (the check
\* that finds the flag clear, and the path itself) leave both coefficients of
\* the surface, the stored message, the flag, the mutex and the parameters as
\* they were; of the plugin's fields only the wait changes.
C18_StallFrame ==
  [][(pcU' # pcU /\ (pcU' = "stall" \/ pcU = "stall"))
       => (/\ muPrimary' = muPrimary
           /\ muSecondary' = muSecondary
           /\ newestContactsMsg' = newestContactsMsg
           /\ newMsg' = newMsg
           /\ mutex' = mutex
           /\ UNCHANGED params)]_vars

\* C18 witness: after one message was consumed and written, an OnUpdate took
\* the no-message path while the second message's delivery completed; it has
\* returned, the coefficient is the one written before, and the second
\* message is stored with its flag still set.
C18_Witness ==
  /\ pcU = "idle"
  /\ pcC = "idle"
  /\ Len(taken) = 1
  /\ Len(delivered) = 2
  /\ atReturn = 2
  /\ newMsgWait # Time(0, 0)
  /\ newMsg
  /\ newestContactsMsg = delivered[2]
  /\ muPrimary # InitialMu
  /\ muPrimary = friction

\* the stall diagnostic is the line a step has just logged
StallLogged == log' # log /\ log' # <<>> /\ Last(log') = "Waited without a contact message"

\* C19: an OnUpdate that consumed a snapshot clears the wait before it looks
\* at the Contacts, so the wait is zero while it computes and writes.  The
\* wait changes in no other way than being cleared or growing by one step
\* size on the no-message path, and the diagnostic is logged only on that
\* path with a grown wait above one second: the time it reports was gathered
\* in no-message ticks after the last consumed snapshot.
C19_ConsumeResetsWait ==
  [][/\ pcU' \in {"loop", "write"} => newMsgWait' = Time(0, 0)
     /\ newMsgWait' # newMsgWait
          => \/ newMsgWait' = Time(0, 0)
             \/ /\ pcU = "stall"
                /\ newMsgWait' = TimePlus(newMsgWait, TimeOf(maxStepSize))
     /\ StallLogged
          => /\ pcU = "stall"
             /\ ~AtMostOneSecond(TimePlus(newMsgWait, TimeOf(maxStepSize)))]_vars

\* C19 witness: after the only message was consumed, a no-message tick has
\* returned without a diagnostic and left a wait of exactly one step (0.4 s),
\* whatever wait the ticks before the message had gathered.
C19_Witness ==
  /\ pcU = "idle"
  /\ maxStepSize = Q(2, 5)
  /\ Len(taken) = 1
  /\ feed = <<>>
  /\ ~newMsg
  /\ newMsgWait = TimeOf(maxStepSize)
  /\ log = <<>>

====
